---- MODULE Spec2Model ----
(***************************************************************************)
(* Model of scripts/deploy.py: one run of main(), which submits a          *)
(* deployment through _request (retry with exponential backoff) and then   *)
(* polls the job status until a terminal state or the wait budget is       *)
(* exceeded.                                                               *)
(*                                                                         *)
(* Time is counted in ticks of 1/TicksPerSec second since the moment       *)
(* `start = time.time()` is taken (line 149); int(time.time() - start) is  *)
(* the truncation of that to whole seconds.  A network attempt takes a     *)
(* nondeterministic number of ticks, time.sleep(n) takes n seconds.        *)
(* Response bodies are empty or JSON objects whose fields hold strings,    *)
(* integers or null; strings are sequences of one-character strings so     *)
(* that str.lower() is computed, not assumed.  args.poll is at least 1;    *)
(* an exception main does not catch ends the run with exit code 1.         *)
(*                                                                         *)
(* URLs, environment values and the serialized payload are strings, so     *)
(* that the salt, rstrip("/") and json.dumps are computed on them; a       *)
(* payload is a flat dict of string values in the key order of its file,   *)
(* and sha256 is taken to be free of collisions.                           *)
(***************************************************************************)
EXTENDS Integers, Sequences, FiniteSets, TLC

\* ------------------------------------------------------------------ bounds
MaxRetries == 1
MaxRetriesExec == 7
MaxWait == 5
MaxPoll == 2
MaxReqTicks == 1
TicksPerSec == 2

\* --------------------------------------------------------------- constants
RETRYABLE_HTTP == {429, 500, 502, 503, 504}

\* The backoff cap of min(60, 2 ** attempt).
BackoffCap == 60

\* ------------------------------------------------------------ JSON values
Str(chars) == <<"str", chars>>
IntVal(n) == <<"int", n>>
Null == <<"null", 0>>
Absent == <<"absent", 0>>

\* Python truthiness of the value dict.get() returns (None when absent).
Truthy(v) ==
    CASE v[1] = "str" -> v[2] # <<>>
      [] v[1] = "int" -> v[2] # 0
      [] OTHER -> FALSE

\* a or b
PyOr(a, b) == IF Truthy(a) THEN a ELSE b

UpperChars == <<"A", "B", "C", "D", "E", "F", "G", "H", "I", "J", "K", "L", "M",
                "N", "O", "P", "Q", "R", "S", "T", "U", "V", "W", "X", "Y", "Z">>
LowerChars == <<"a", "b", "c", "d", "e", "f", "g", "h", "i", "j", "k", "l", "m",
                "n", "o", "p", "q", "r", "s", "t", "u", "v", "w", "x", "y", "z">>

OtherChars == {" ", "-", "_", "0", "1", "7"}

Alphabet ==
    {UpperChars[i] : i \in DOMAIN UpperChars}
        \cup {LowerChars[i] : i \in DOMAIN LowerChars} \cup OtherChars

\* str.lower() on one character: an upper-case letter becomes its lower-case
\* letter, every other character stays.
LowerChar ==
    [c \in Alphabet |->
        IF \E i \in DOMAIN UpperChars : UpperChars[i] = c
        THEN LowerChars[CHOOSE i \in DOMAIN UpperChars : UpperChars[i] = c]
        ELSE c]

LowerIdentity(s) == s

\* str.lower()
Lower(s) == [i \in DOMAIN s |-> LowerChar[s[i]]]

\* ------------------------------------------------------------ vocabulary
SuccessStates ==
    { <<"s","u","c","c","e","e","d","e","d">>,
      <<"s","u","c","c","e","s","s">>,
      <<"c","o","m","p","l","e","t","e","d">> }

FailureStates ==
    { <<"f","a","i","l","e","d">>,
      <<"e","r","r","o","r">>,
      <<"c","a","n","c","e","l","l","e","d">>,
      <<"c","a","n","c","e","l","e","d">> }

NormalizeUnknownFails(state) ==
    IF state \in SuccessStates THEN "Succeeded" ELSE "Failed"

\* The two `if state in (...)` tests of the poll loop, on the lower-cased state.
Normalize(state) ==
    IF state \in SuccessStates THEN "Succeeded"
    ELSE IF state \in FailureStates THEN "Failed"
    ELSE "InProgress"

\* ------------------------------------------------------------- documents
EmptyBytes == [empty |-> TRUE]
SubmitDoc(j, i, d) == [empty |-> FALSE, jobId |-> j, id |-> i, deploymentId |-> d]
StatusDoc(st, sa) == [empty |-> FALSE, status |-> st, state |-> sa]

EmptySubmitDict == [jobId |-> Absent, id |-> Absent, deploymentId |-> Absent]
EmptyStatusDict == [status |-> Absent, state |-> Absent]

\* _parse_json on a submission response body
ParseSubmit(b) ==
    IF b.empty THEN EmptySubmitDict
    ELSE [jobId |-> b.jobId, id |-> b.id, deploymentId |-> b.deploymentId]

\* _parse_json on a status response body
ParseStatus(b) ==
    IF b.empty THEN EmptyStatusDict
    ELSE [status |-> b.status, state |-> b.state]

JobIdOfNoGenericId(resp) == PyOr(resp.jobId, resp.deploymentId)

\* resp.get("jobId") or resp.get("id") or resp.get("deploymentId")
JobIdOf(resp) == PyOr(PyOr(resp.jobId, resp.id), resp.deploymentId)

\* s_resp.get("status") or s_resp.get("state") or ""
RawStateOf(s_resp) == PyOr(PyOr(s_resp.status, s_resp.state), Str(<<>>))[2]

\* ----------------------------------------------------- the remote's answers
\* Final HTTP statuses the submission endpoint and the status endpoint answer.
SubmitStatuses == {200, 201, 400, 404, 429, 500, 501, 502, 503, 504}
PollStatuses == {200, 404, 503}
HttpStatuses(m) == IF m = "POST" THEN SubmitStatuses ELSE PollStatuses

\* urllib.request.urlopen hands back a 2xx response and raises HTTPError
\* for every other final status.
UrlopenReturns(status) == 200 <= status /\ status < 300

\* Bodies of HTTP error responses and the network-level errors, per endpoint.
ErrorBodies(m) ==
    IF m = "POST" THEN {<<>>, <<"o","o","p","s">>} ELSE {<<"o","o","p","s">>}
NetworkErrors(m) ==
    IF m = "POST" THEN {"URLError", "TimeoutError"} ELSE {"TimeoutError"}

SubmitBodies ==
    { EmptyBytes,
      SubmitDoc(Absent, Absent, Absent),
      SubmitDoc(Str(<<"a","b","c">>), Absent, Absent),
      SubmitDoc(Absent, IntVal(1), Absent),
      SubmitDoc(Str(<<>>), Null, Str(<<"d","7">>)),
      SubmitDoc(IntVal(0), Absent, Absent),
      SubmitDoc(Null, Str(<<>>), Absent) }

StatusBodies ==
    { EmptyBytes,
      StatusDoc(Str(<<"q","u","e","u","e","d">>), Absent),
      StatusDoc(Str(<<"c","o","m","p","l","e","t","e","d">>), Absent),
      StatusDoc(Str(<<>>), Str(<<"C","a","n","c","e","l","l","e","d">>)) }

\* Raw state strings for the classification on its own: the vocabulary in
\* several casings, near misses, and states the code does not know.
RawWords ==
    { <<>>,
      <<"s","u","c","c","e","e","d","e","d">>,
      <<"S","U","C","C","E","E","D","E","D">>,
      <<"s","u","c","c","e","s","s">>,
      <<"s","U","c","C","e","S","s">>,
      <<"C","o","m","p","l","e","t","e","d">>,
      <<"f","a","i","l","e","d">>,
      <<"F","A","I","L","E","D">>,
      <<"E","r","r","o","r">>,
      <<"C","a","n","c","e","l","l","e","d">>,
      <<"C","A","N","C","E","L","E","D">>,
      <<"s","u","c","c","e","e","d">>,
      <<"s","u","c","c","e","e","d","e","d"," ">>,
      <<"s","u","c","c","e","s","s","f","u","l">>,
      <<"f","a","i","l">>,
      <<"e","r","r","o","r","s">>,
      <<"c","a","n","c","e","l">>,
      <<"q","u","e","u","e","d">>,
      <<"R","u","n","n","i","n","g">>,
      <<"i","n","_","p","r","o","g","r","e","s","s">> }

ClassifyValues == {Absent, Null} \cup {Str(w) : w \in RawWords}

ClassifyBodies ==
    {EmptyBytes} \cup {StatusDoc(a, b) : a, b \in ClassifyValues}

\* ----------------------------------------------------- the idempotency key
\* A payload is the dict json.load returns: its (key, value) string pairs in
\* the order of the file.  {"env": "prod"}:
Payload == << <<"env", "prod">> >>

\* The same mapping written in two key orders, and a different mapping.
KeyPayloads ==
    { << <<"env", "prod">>, <<"ver", "1">> >>,
      << <<"ver", "1">>, <<"env", "prod">> >>,
      << <<"env", "test">>, <<"ver", "1">> >> }

KeyBaseUrls ==
    { "https://deploy-api.internal",
      "https://deploy-api.internal/",
      "https://deploy-b.internal" }

KeySubmitPaths == {"/deployments", "/v2/deployments"}

SourceVersions == {"c0ffee", "deadbeef"}

BuildIds == {"42", "43"}

\* One item of a dict as json.dumps writes it with separators (",", ":").
JsonItem(kv) == "\"" \o kv[1] \o "\":\"" \o kv[2] \o "\""

RECURSIVE JsonItems(_, _)
JsonItems(d, i) ==
    IF i > Len(d) THEN ""
    ELSE IF i = Len(d) THEN JsonItem(d[i])
    ELSE JsonItem(d[i]) \o "," \o JsonItems(d, i + 1)

\* _json_dumps: the items in the dict's own order, no sorting of keys.
JsonDumps(d) == "{" \o JsonItems(d, 1) \o "}"

\* hashlib.sha256(raw).hexdigest(), taken to be free of collisions: the
\* digest stands for the bytes hashed.
Sha256Hex(raw) == <<"sha256", raw>>

MakeKeyIgnoringSalt(pl, salt) == Sha256Hex(JsonDumps(pl))

\* _make_idempotency_key
MakeIdempotencyKey(pl, salt) == Sha256Hex(JsonDumps(pl) \o salt)

\* salt = BUILD_SOURCEVERSION + "|" + BUILD_BUILDID + "|" + args.base_url
Salt(sv, bid, url) == sv \o "|" \o bid \o "|" \o url

\* str.rstrip(ch)
RECURSIVE RStrip(_, _)
RStrip(s, ch) ==
    IF Len(s) > 0 /\ SubSeq(s, Len(s), Len(s)) = ch
    THEN RStrip(SubSeq(s, 1, Len(s) - 1), ch)
    ELSE s

\* submit_url = args.base_url.rstrip("/") + args.submit_path
SubmitUrl(url, path) == RStrip(url, "/") \o path

RunKeyWithSubmitUrl(pl, sv, bid, url, path) ==
    MakeIdempotencyKey(pl, Salt(sv, bid, SubmitUrl(url, path)))

\* The key main() derives for a run with this payload, environment and
\* arguments (lines 112-113); the submit path takes no part in it.
RunKey(pl, sv, bid, url, path) == MakeIdempotencyKey(pl, Salt(sv, bid, url))

NoKey == <<"none", "">>

\* The headers dict of a _request call, as far as the idempotency key goes:
\* the submission carries it, a status request does not.
PostHeaders(key) == [IdempotencyKey |-> key]
GetHeaders == [IdempotencyKey |-> NoKey]

\* ------------------------------------------------------------------ state
VARIABLES
    pc,            \* where main() is: start, request, poll, done
    base_url,      \* args.base_url ("" when not given)
    api_key,       \* args.api_key ("" when not given)
    max_retries,   \* args.max_retries
    max_wait,      \* args.max_wait
    poll,          \* args.poll
    method,        \* method of the _request call in progress or last made
    attempt,       \* _request's attempt counter
    last_err,      \* _request's last_err ("None" or a network error)
    ret,           \* how the last _request call ended
    resp,          \* parsed submission response
    job_id,        \* job id taken from resp
    s_resp,        \* parsed status response of the last poll
    state,         \* lower-cased raw state of the last poll
    clock,         \* ticks since `start` was taken
    elapsed,       \* the poll loop's elapsed (whole seconds)
    exit_code,     \* process exit code, -1 while running
    artifacts,     \* the artifacts _write_artifacts has written, in order
    sleeps,        \* backoff sleeps (seconds) of the current _request call, in order
    nAttempts,     \* network attempts of the current _request call
    only503,       \* every failed attempt of the current call was HTTP 503
    lastOutcome,   \* what the transport did on the last attempt of the current call
    nPolls,        \* status requests (_request GET calls) started
    nPollSleeps,   \* poll-interval sleeps taken
    normalized,    \* classification of the last status response, "none" before
    payload,       \* the payload json.load read
    source_version,  \* BUILD_SOURCEVERSION
    build_id,      \* BUILD_BUILDID
    submit_path,   \* args.submit_path
    idem_key,      \* main's idem_key, NoKey before it is derived
    submit_url,    \* main's submit_url, "" before it is built
    headers,       \* headers of the _request call in progress or last made
    sentKeys,      \* Idempotency-Key values the submission's attempts carried
    diagnostic     \* the last error the run reported, "none" before

vars == <<pc, base_url, api_key, max_retries, max_wait, poll, method, attempt,
          last_err, ret, resp, job_id, s_resp, state, clock, elapsed, exit_code,
          artifacts, sleeps, nAttempts, only503, lastOutcome, nPolls,
          nPollSleeps, normalized, payload, source_version, build_id,
          submit_path, idem_key, submit_url, headers, sentKeys, diagnostic>>

cfgVars == <<base_url, api_key, max_retries, max_wait, poll, payload,
             source_version, build_id, submit_path>>

keyVars == <<idem_key, submit_url>>

NoRet == [kind |-> "none", status |-> 0, body |-> EmptyBytes, payload |-> <<>>,
          err |-> "None"]

NoOutcome == [kind |-> "none", status |-> 0, body |-> EmptyBytes,
              payload |-> <<>>, err |-> "None"]

Init ==
    /\ pc = "start"
    /\ base_url \in {"", "https://deploy-api.internal"}
    /\ api_key \in {"", "k3y"}
    /\ max_retries \in -1 .. MaxRetries
    /\ max_wait \in -1 .. MaxWait
    /\ poll \in 1 .. MaxPoll
    /\ method = "none"
    /\ attempt = 0
    /\ last_err = "None"
    /\ ret = NoRet
    /\ resp = EmptySubmitDict
    /\ job_id = Absent
    /\ s_resp = EmptyStatusDict
    /\ state = <<>>
    /\ clock = 0
    /\ elapsed = 0
    /\ exit_code = -1
    /\ artifacts = <<>>
    /\ sleeps = <<>>
    /\ nAttempts = 0
    /\ only503 = TRUE
    /\ lastOutcome = NoOutcome
    /\ nPolls = 0
    /\ nPollSleeps = 0
    /\ normalized = "none"
    /\ payload = Payload
    /\ source_version = "c0ffee"
    /\ build_id = "42"
    /\ submit_path = "/deployments"
    /\ idem_key = NoKey
    /\ submit_url = ""
    /\ headers = GetHeaders
    /\ sentKeys = {}
    /\ diagnostic = "none"

\* int(time.time() - start)
ElapsedSeconds(ticks) == ticks \div TicksPerSec

RECURSIVE Pow2(_)
Pow2(n) == IF n = 0 THEN 1 ELSE 2 * Pow2(n - 1)

Min(a, b) == IF a <= b THEN a ELSE b

BackoffUncapped(a) == Pow2(a)

\* sleep = min(60, (2 ** attempt))
Backoff(a) == Min(BackoffCap, Pow2(a))

\* Time passes only for the poll loop's clock, which starts at line 149.
Advance(ticks) == IF method = "GET" THEN clock + ticks ELSE clock

\* ------------------------------------------------------------- decisions
\* while attempt <= max_retries
LoopGuard(a, m) == a <= m

RetryHTTPAnyStatus(status, a, m) == a < m

RetryHTTPClientErrors(status, a, m) ==
    (status \in RETRYABLE_HTTP \/ (400 <= status /\ status <= 499)) /\ a < m

RetryHTTPOffByOne(status, a, m) == status \in RETRYABLE_HTTP /\ a <= m

\* if status in RETRYABLE_HTTP and attempt < max_retries
RetryHTTP(status, a, m) == status \in RETRYABLE_HTTP /\ a < m

RetryNetworkOffByOne(a, m) == a <= m

\* if attempt < max_retries
RetryNetwork(a, m) == a < m

BudgetExceededNonStrict(e, w) == e >= w

BudgetExceededLate(e, w) == e > w + 1

\* if elapsed > args.max_wait
BudgetExceeded(e, w) == e > w

ConfigMissingUrlOnly(url, key) == url = ""

\* if not args.base_url / if not args.api_key
ConfigMissing(url, key) == url = "" \/ key = ""

PollSleepTicksShort(p) == p

\* time.sleep(args.poll), in ticks
PollSleepTicks(p) == p * TicksPerSec

\* ---------------------------------------------------------------- actions
\* _request, lines 44-46: an attempt sends the call's headers; the
\* Idempotency-Key it carries, if any, is recorded.
SendHeaders ==
    sentKeys' = IF headers.IdempotencyKey = NoKey THEN sentKeys
                ELSE sentKeys \cup {headers.IdempotencyKey}

RaiseCaughtAsRemoteFailure(r) ==
    /\ ret' = r
    /\ pc' = "done"
    /\ exit_code' = 5
    /\ diagnostic' = "Deployment FAILED"

RaiseSwallowedByPoller(r) ==
    /\ ret' = r
    /\ IF method = "GET"
       THEN /\ pc' = "poll"
            /\ UNCHANGED <<exit_code, diagnostic>>
       ELSE /\ pc' = "done"
            /\ exit_code' = 1
            /\ diagnostic' = "Traceback"

\* _request raises RuntimeError (lines 62, 74).  Nothing in main catches it:
\* the interpreter prints the traceback with the error's message and exits
\* with code 1.
RaiseRuntimeError(r) ==
    /\ ret' = r
    /\ pc' = "done"
    /\ exit_code' = 1
    /\ diagnostic' = "Traceback"

\* main(), lines 101-137: the configuration checks, the idempotency key and
\* the headers, then the submission enters _request.
Start ==
    /\ pc = "start"
    /\ IF ConfigMissing(base_url, api_key)
       THEN /\ pc' = "done"
            /\ exit_code' = 2
            /\ diagnostic' = "Missing configuration"
            /\ UNCHANGED <<method, keyVars, headers>>
       ELSE /\ pc' = "request"
            /\ method' = "POST"
            /\ idem_key' = RunKey(payload, source_version, build_id, base_url,
                                  submit_path)
            /\ submit_url' = SubmitUrl(base_url, submit_path)
            /\ headers' = PostHeaders(idem_key')
            /\ UNCHANGED <<exit_code, diagnostic>>
    /\ attempt' = 0
    /\ last_err' = "None"
    /\ UNCHANGED <<cfgVars, ret, resp, job_id, s_resp, state, clock, elapsed,
                   artifacts, sleeps, nAttempts, only503, lastOutcome, nPolls,
                   nPollSleeps, normalized, sentKeys>>

\* _request, lines 42-49: an attempt that urlopen answers with a 2xx
\* response; _request returns (status, body) to main.
RequestReturns(status, body) ==
    /\ pc = "request"
    /\ LoopGuard(attempt, max_retries)
    /\ UrlopenReturns(status)
    /\ ret' = [kind |-> "return", status |-> status, body |-> body,
               payload |-> <<>>, err |-> "None"]
    /\ nAttempts' = nAttempts + 1
    /\ lastOutcome' = [kind |-> "return", status |-> status, body |-> body,
                       payload |-> <<>>, err |-> "None"]
    /\ SendHeaders
    /\ UNCHANGED <<cfgVars, keyVars, headers, method, attempt, last_err, sleeps,
                   only503>>

\* _request, lines 51-62: an attempt that ends in HTTPError.  Retryable and
\* attempts left: back off and go round; otherwise RuntimeError, which main
\* does not catch (the interpreter exits with code 1).
AttemptHTTPError ==
    /\ pc = "request"
    /\ LoopGuard(attempt, max_retries)
    /\ \E status \in HttpStatuses(method), e_payload \in ErrorBodies(method),
          d \in 0 .. MaxReqTicks :
          /\ ~UrlopenReturns(status)
          /\ only503' = (only503 /\ status = 503)
          /\ lastOutcome' = [kind |-> "http", status |-> status,
                             body |-> EmptyBytes, payload |-> e_payload,
                             err |-> "None"]
          /\ IF RetryHTTP(status, attempt, max_retries)
             THEN /\ sleeps' = Append(sleeps, Backoff(attempt))
                  /\ clock' = Advance(d + Backoff(attempt) * TicksPerSec)
                  /\ attempt' = attempt + 1
                  /\ UNCHANGED <<pc, ret, exit_code, diagnostic>>
             ELSE /\ RaiseRuntimeError([kind |-> "raise_http",
                                        status |-> status, body |-> EmptyBytes,
                                        payload |-> e_payload, err |-> "None"])
                  /\ clock' = Advance(d)
                  /\ UNCHANGED <<sleeps, attempt>>
    /\ nAttempts' = nAttempts + 1
    /\ SendHeaders
    /\ UNCHANGED <<cfgVars, keyVars, headers, method, last_err, resp, job_id,
                   s_resp, state, elapsed, artifacts, nPolls, nPollSleeps,
                   normalized>>

\* _request, lines 64-74: an attempt that ends in URLError or TimeoutError.
\* Attempts left: back off and go round; otherwise break and raise
\* RuntimeError from last_err.
AttemptNetworkError ==
    /\ pc = "request"
    /\ LoopGuard(attempt, max_retries)
    /\ \E e \in NetworkErrors(method), d \in 0 .. MaxReqTicks :
          /\ last_err' = e
          /\ lastOutcome' = [kind |-> "net", status |-> 0, body |-> EmptyBytes,
                             payload |-> <<>>, err |-> e]
          /\ IF RetryNetwork(attempt, max_retries)
             THEN /\ sleeps' = Append(sleeps, Backoff(attempt))
                  /\ clock' = Advance(d + Backoff(attempt) * TicksPerSec)
                  /\ attempt' = attempt + 1
                  /\ UNCHANGED <<pc, ret, exit_code, diagnostic>>
             ELSE /\ RaiseRuntimeError([kind |-> "raise_net", status |-> 0,
                                        body |-> EmptyBytes, payload |-> <<>>,
                                        err |-> e])
                  /\ clock' = Advance(d)
                  /\ UNCHANGED <<sleeps, attempt>>
    /\ only503' = FALSE
    /\ nAttempts' = nAttempts + 1
    /\ SendHeaders
    /\ UNCHANGED <<cfgVars, keyVars, headers, method, resp, job_id, s_resp,
                   state, elapsed, artifacts, nPolls, nPollSleeps, normalized>>

\* _request, lines 42 and 74: the loop condition is false on entry
\* (max_retries < 0), so no attempt is made and RuntimeError is raised.
RequestLoopExit ==
    /\ pc = "request"
    /\ ~LoopGuard(attempt, max_retries)
    /\ RaiseRuntimeError([kind |-> "raise_net", status |-> 0,
                          body |-> EmptyBytes, payload |-> <<>>,
                          err |-> last_err])
    /\ UNCHANGED <<cfgVars, keyVars, headers, sentKeys, method, attempt,
                   last_err, resp, job_id, s_resp, state, clock, elapsed,
                   artifacts, sleeps, nAttempts, only503, lastOutcome, nPolls,
                   nPollSleeps, normalized>>

\* main(), lines 139-149: parse the submission response, take the job id,
\* and start the poll clock.
HandleSubmitResponse(body) ==
    /\ resp' = ParseSubmit(body)
    /\ job_id' = JobIdOf(resp')
    /\ IF ~Truthy(job_id')
       THEN /\ pc' = "done"
            /\ exit_code' = 3
            /\ diagnostic' = "Submit response missing job id"
       ELSE /\ pc' = "poll"
            /\ UNCHANGED <<exit_code, diagnostic>>
    /\ clock' = 0
    /\ UNCHANGED <<s_resp, state, elapsed, artifacts, nPolls, nPollSleeps,
                   normalized>>

\* The submission POST is answered: _request returns and main goes on to
\* the job id.
SubmitReturns ==
    /\ method = "POST"
    /\ \E status \in HttpStatuses(method), body \in SubmitBodies :
          /\ RequestReturns(status, body)
          /\ HandleSubmitResponse(body)

\* main(), lines 151-168: the top of the poll loop; the budget check, then the
\* status request enters _request.
PollCheck ==
    /\ pc = "poll"
    /\ elapsed' = ElapsedSeconds(clock)
    /\ IF BudgetExceeded(elapsed', max_wait)
       THEN /\ pc' = "done"
            /\ exit_code' = 4
            /\ diagnostic' = "Timed out waiting for job"
            /\ UNCHANGED <<method, attempt, last_err, sleeps, nAttempts,
                           only503, lastOutcome, nPolls, headers>>
       ELSE /\ pc' = "request"
            /\ method' = "GET"
            /\ attempt' = 0
            /\ last_err' = "None"
            /\ sleeps' = <<>>
            /\ nAttempts' = 0
            /\ only503' = TRUE
            /\ lastOutcome' = NoOutcome
            /\ nPolls' = nPolls + 1
            /\ headers' = GetHeaders
            /\ UNCHANGED <<exit_code, diagnostic>>
    /\ UNCHANGED <<cfgVars, keyVars, sentKeys, ret, resp, job_id, s_resp, state,
                   clock, artifacts, nPollSleeps, normalized>>

\* _write_artifacts, lines 188-203
Artifact(jid, pl, submit_resp, status_resp) ==
    [jobId |-> jid, payload |-> pl, submitResponse |-> submit_resp,
     finalStatus |-> status_resp]

\* The [error] line of a remote failure (line 179); success reports no error.
TerminalDiagnostic(code) == IF code = 5 THEN "Deployment FAILED" ELSE diagnostic

WriteAndLoop(code, status_resp, now) ==
    /\ artifacts' =
          Append(artifacts, Artifact(job_id, payload, resp, status_resp))
    /\ clock' = now + PollSleepTicks(poll)
    /\ nPollSleeps' = nPollSleeps + 1
    /\ pc' = "poll"
    /\ diagnostic' = TerminalDiagnostic(code)
    /\ UNCHANGED exit_code

WriteStaleAndReturn(code, status_resp, now) ==
    /\ artifacts' = Append(artifacts, Artifact(job_id, payload, resp, s_resp))
    /\ pc' = "done"
    /\ exit_code' = code
    /\ clock' = now
    /\ diagnostic' = TerminalDiagnostic(code)
    /\ UNCHANGED nPollSleeps

\* main(), lines 174-181: a terminal state writes the artifact and returns
\* its exit code.
WriteAndReturn(code, status_resp, now) ==
    /\ artifacts' =
          Append(artifacts, Artifact(job_id, payload, resp, status_resp))
    /\ pc' = "done"
    /\ exit_code' = code
    /\ clock' = now
    /\ diagnostic' = TerminalDiagnostic(code)
    /\ UNCHANGED nPollSleeps

\* main(), lines 183-186: still running, queued or unknown; sleep and loop.
SleepAndLoop(now) ==
    /\ clock' = now + PollSleepTicks(poll)
    /\ nPollSleeps' = nPollSleeps + 1
    /\ pc' = "poll"
    /\ UNCHANGED <<artifacts, exit_code, diagnostic>>

\* main(), lines 170-186: parse and classify the status response; a terminal
\* state writes the artifact and returns, anything else sleeps args.poll.
\* `now` is the clock when the response arrives.
HandleStatusResponse(body, now) ==
    /\ s_resp' = ParseStatus(body)
    /\ state' = Lower(RawStateOf(s_resp'))
    /\ normalized' = Normalize(state')
    /\ CASE normalized' = "Succeeded" -> WriteAndReturn(0, s_resp', now)
         [] normalized' = "Failed" -> WriteAndReturn(5, s_resp', now)
         [] OTHER -> SleepAndLoop(now)
    /\ UNCHANGED <<resp, job_id, elapsed, nPolls>>

\* A status GET is answered with a body of `bodies`: _request returns and
\* main classifies the state.
StatusAnswered(bodies) ==
    /\ method = "GET"
    /\ \E status \in HttpStatuses(method), body \in bodies, d \in 0 .. MaxReqTicks :
          /\ RequestReturns(status, body)
          /\ HandleStatusResponse(body, clock + d)

StatusReturns == StatusAnswered(StatusBodies)

\* The same step with the remote's state drawn from ClassifyBodies.
ClassifyReturns == StatusAnswered(ClassifyBodies)

Next ==
    \/ Start
    \/ SubmitReturns
    \/ StatusReturns
    \/ AttemptHTTPError
    \/ AttemptNetworkError
    \/ RequestLoopExit
    \/ PollCheck

Spec == Init /\ [][Next]_vars

\* The run is sequential: a sleep ends, a request returns or times out, and
\* the next statement runs.
FairSpec == Init /\ [][Next]_vars /\ WF_vars(Next)

\* One _request call on its own: main has passed the configuration checks
\* and entered _request for the submission, with max_retries up to
\* MaxRetriesExec, so that the backoff reaches its cap.
ExecInit ==
    /\ pc = "request"
    /\ base_url = "https://deploy-api.internal"
    /\ api_key = "k3y"
    /\ max_retries \in -1 .. MaxRetriesExec
    /\ max_wait = 0
    /\ poll = 1
    /\ method = "POST"
    /\ attempt = 0
    /\ last_err = "None"
    /\ ret = NoRet
    /\ resp = EmptySubmitDict
    /\ job_id = Absent
    /\ s_resp = EmptyStatusDict
    /\ state = <<>>
    /\ clock = 0
    /\ elapsed = 0
    /\ exit_code = -1
    /\ artifacts = <<>>
    /\ sleeps = <<>>
    /\ nAttempts = 0
    /\ only503 = TRUE
    /\ lastOutcome = NoOutcome
    /\ nPolls = 0
    /\ nPollSleeps = 0
    /\ normalized = "none"
    /\ payload = Payload
    /\ source_version = "c0ffee"
    /\ build_id = "42"
    /\ submit_path = "/deployments"
    /\ idem_key = RunKey(payload, source_version, build_id, base_url, submit_path)
    /\ submit_url = SubmitUrl(base_url, submit_path)
    /\ headers = PostHeaders(idem_key)
    /\ sentKeys = {}
    /\ diagnostic = "none"

ExecNext ==
    \/ SubmitReturns
    \/ AttemptHTTPError
    \/ AttemptNetworkError
    \/ RequestLoopExit

ExecSpec == ExecInit /\ [][ExecNext]_vars

\* The classification on its own: the job is submitted, the first status
\* request is in flight, and the remote answers with any body of
\* ClassifyBodies.
ClassifyInit ==
    /\ pc = "request"
    /\ base_url = "https://deploy-api.internal"
    /\ api_key = "k3y"
    /\ max_retries = 0
    /\ max_wait = 0
    /\ poll = 1
    /\ method = "GET"
    /\ attempt = 0
    /\ last_err = "None"
    /\ ret = [kind |-> "return", status |-> 200,
              body |-> SubmitDoc(Str(<<"a","b","c">>), Absent, Absent),
              payload |-> <<>>, err |-> "None"]
    /\ resp = ParseSubmit(ret.body)
    /\ job_id = JobIdOf(resp)
    /\ s_resp = EmptyStatusDict
    /\ state = <<>>
    /\ clock = 0
    /\ elapsed = 0
    /\ exit_code = -1
    /\ artifacts = <<>>
    /\ sleeps = <<>>
    /\ nAttempts = 0
    /\ only503 = TRUE
    /\ lastOutcome = NoOutcome
    /\ nPolls = 1
    /\ nPollSleeps = 0
    /\ normalized = "none"
    /\ payload = Payload
    /\ source_version = "c0ffee"
    /\ build_id = "42"
    /\ submit_path = "/deployments"
    /\ idem_key = RunKey(payload, source_version, build_id, base_url, submit_path)
    /\ submit_url = SubmitUrl(base_url, submit_path)
    /\ headers = GetHeaders
    /\ sentKeys = {idem_key}
    /\ diagnostic = "none"

ClassifyNext ==
    \/ ClassifyReturns
    \/ PollCheck

ClassifySpec == ClassifyInit /\ [][ClassifyNext]_vars

\* The key derivation on its own: a configured run with any payload of
\* KeyPayloads, any base URL, submit path and build environment, from the
\* start of main() to the end of the submission.
KeyInit ==
    /\ pc = "start"
    /\ base_url \in KeyBaseUrls
    /\ api_key = "k3y"
    /\ max_retries \in -1 .. MaxRetries
    /\ max_wait = 0
    /\ poll = 1
    /\ method = "none"
    /\ attempt = 0
    /\ last_err = "None"
    /\ ret = NoRet
    /\ resp = EmptySubmitDict
    /\ job_id = Absent
    /\ s_resp = EmptyStatusDict
    /\ state = <<>>
    /\ clock = 0
    /\ elapsed = 0
    /\ exit_code = -1
    /\ artifacts = <<>>
    /\ sleeps = <<>>
    /\ nAttempts = 0
    /\ only503 = TRUE
    /\ lastOutcome = NoOutcome
    /\ nPolls = 0
    /\ nPollSleeps = 0
    /\ normalized = "none"
    /\ payload \in KeyPayloads
    /\ source_version \in SourceVersions
    /\ build_id \in BuildIds
    /\ submit_path \in KeySubmitPaths
    /\ idem_key = NoKey
    /\ submit_url = ""
    /\ headers = GetHeaders
    /\ sentKeys = {}
    /\ diagnostic = "none"

KeyNext ==
    \/ Start
    \/ SubmitReturns
    \/ AttemptHTTPError
    \/ AttemptNetworkError
    \/ RequestLoopExit

KeySpec == KeyInit /\ [][KeyNext]_vars

\* ------------------------------------------------------------------ claims
\* The _request call in progress, or last made, has ended.
CallEnded == pc # "request" /\ method # "none"

TransientOutcome(o) ==
    \/ o.kind = "net"
    \/ o.kind = "http" /\ o.status \in {429, 500, 502, 503, 504}

\* C1: the exit code is determined by how the run ended.  0 only after the
\* last status response was classified Succeeded on a success-vocabulary
\* state; 5 only after it was classified Failed; 4 only after the poll loop's
\* elapsed check found elapsed > max_wait; 3 only after the submission
\* response gave no job id; 2 only when base URL or API key is missing, and
\* then no request was ever sent.  The five endings exclude one another, so
\* the codes are pairwise distinct and a timeout never shares the code of a
\* remote failure.
C1_ExitCodeContract ==
    /\ (base_url = "" \/ api_key = "") =>
          (method = "none" /\ nAttempts = 0 /\ nPolls = 0 /\ exit_code \in {-1, 2})
    /\ pc = "done" =>
          /\ exit_code \in {0, 1, 2, 3, 4, 5}
          /\ exit_code = 0 <=> (normalized = "Succeeded" /\ state \in SuccessStates)
          /\ exit_code = 5 <=> (normalized = "Failed" /\ state \in FailureStates)
          /\ exit_code \in {0, 5} => (method = "GET" /\ ret.kind = "return")
          /\ exit_code = 4 =>
                (elapsed > max_wait /\ normalized \in {"none", "InProgress"})
          /\ exit_code = 3 =>
                (method = "POST" /\ ret.kind = "return" /\ ~Truthy(job_id)
                   /\ nPolls = 0)
          /\ exit_code = 2 => (base_url = "" \/ api_key = "")
          /\ exit_code = 1 => ret.kind \in {"raise_http", "raise_net"}
    /\ pc # "done" => exit_code = -1

C1_Witness ==
    /\ pc = "done"
    /\ exit_code = 5
    /\ nPolls >= 2
    /\ api_key # ""

\* C2 as stated: a first answer whose status is outside the retryable set,
\* 404 included, is returned to the caller as (status, body).
C2_Original ==
    (lastOutcome.kind \in {"return", "http"}
        /\ lastOutcome.status \notin {429, 500, 502, 503, 504}
        /\ nAttempts = 1)
    => (ret.kind = "return" /\ ret.status = lastOutcome.status /\ sleeps = <<>>)

\* C2, amended: an answer whose status is outside the retryable set ends the
\* call at that attempt with no retry and no sleep after it.  A 2xx answer is
\* returned as (status, body); any other such status, 404 included, makes the
\* call raise RuntimeError carrying that status and body, which ends the run
\* with exit code 1.
C2_NonRetryableEndsCall ==
    (lastOutcome.kind \in {"return", "http"}
        /\ lastOutcome.status \notin {429, 500, 502, 503, 504})
    => /\ CallEnded
       /\ Len(sleeps) = nAttempts - 1
       /\ nAttempts = 1 => sleeps = <<>>
       /\ IF 200 <= lastOutcome.status /\ lastOutcome.status <= 299
          THEN /\ lastOutcome.kind = "return"
               /\ ret.kind = "return"
               /\ ret.status = lastOutcome.status
               /\ ret.body = lastOutcome.body
          ELSE /\ lastOutcome.kind = "http"
               /\ ret.kind = "raise_http"
               /\ ret.status = lastOutcome.status
               /\ ret.payload = lastOutcome.payload
               /\ pc = "done"
               /\ exit_code = 1

C2_Witness ==
    /\ lastOutcome.kind = "http"
    /\ lastOutcome.status = 404
    /\ nAttempts = 1
    /\ sleeps = <<>>
    /\ ret.kind = "raise_http"

\* C3: with max_retries >= 0 one _request call makes at most max_retries + 1
\* network attempts; a call whose last attempt failed transiently has made
\* exactly max_retries + 1 attempts and has raised, carrying the HTTP status
\* and body when that last failure was a retryable status and the last
\* transport error when it was a network failure.
C3_BoundedAttempts ==
    max_retries >= 0 =>
       /\ nAttempts <= max_retries + 1
       /\ (CallEnded /\ TransientOutcome(lastOutcome)) =>
             /\ nAttempts = max_retries + 1
             /\ pc = "done"
             /\ exit_code = 1
             /\ lastOutcome.kind = "http" =>
                   /\ ret.kind = "raise_http"
                   /\ ret.status = lastOutcome.status
                   /\ ret.payload = lastOutcome.payload
             /\ lastOutcome.kind = "net" =>
                   /\ ret.kind = "raise_net"
                   /\ ret.err = lastOutcome.err
                   /\ ret.err = last_err

C3_Witness ==
    /\ max_retries >= 2
    /\ CallEnded
    /\ lastOutcome.kind = "net"
    /\ ret.kind = "raise_net"
    /\ nAttempts = max_retries + 1

ExpectedBackoff == <<1, 2, 4, 8, 16, 32, 60, 60, 60, 60, 60, 60>>

\* C4: the k-th backoff sleep of a call (k = 0, 1, 2, ...) lasts
\* min(60, 2^k) seconds: 1, 2, 4, 8, 16, 32, 60, 60, ...; a call with
\* max_retries = 2 answered 503, 503, 200 returns on the third attempt after
\* sleeps of 1 s then 2 s.
C4_BackoffSequence ==
    /\ Len(sleeps) <= Len(ExpectedBackoff)
    /\ \A k \in DOMAIN sleeps : sleeps[k] = ExpectedBackoff[k]
    /\ (max_retries = 2 /\ only503 /\ ret.kind = "return" /\ nAttempts = 3)
          => sleeps = <<1, 2>>

C4_Witness ==
    /\ max_retries = 2
    /\ only503
    /\ lastOutcome.kind = "return"
    /\ lastOutcome.status = 200
    /\ nAttempts = 3
    /\ sleeps = <<1, 2>>

\* C5 as stated: no network attempt of a status request, first or retry, is
\* started at a moment when elapsed > max_wait.  (In a state with
\* pc = "request" the next attempt starts at the current clock.)
C5_Original ==
    ~(/\ pc = "request"
      /\ method = "GET"
      /\ attempt <= max_retries
      /\ clock \div TicksPerSec > max_wait)

\* C5, amended: the budget is checked only at the top of each poll
\* iteration.  A status request is begun only by that check, at a moment when
\* the elapsed whole seconds are <= max_wait, and its first attempt starts
\* then; when the check finds elapsed > max_wait the run makes no further
\* request and ends with exit code 4.  (Retries of a status request already
\* begun are not held to the budget.)
C5_BudgetCheckedPerPoll ==
    [][/\ nPolls' # nPolls =>
             /\ pc = "poll"
             /\ clock \div TicksPerSec <= max_wait
             /\ nPolls' = nPolls + 1
             /\ pc' = "request"
             /\ attempt' = 0
             /\ clock' = clock
       /\ (pc = "poll" /\ clock \div TicksPerSec > max_wait) =>
             /\ pc' = "done"
             /\ exit_code' = 4
             /\ nPolls' = nPolls
             /\ nAttempts' = nAttempts]_vars

C5_Witness ==
    /\ pc = "done"
    /\ exit_code = 4
    /\ elapsed > max_wait
    /\ max_wait >= 1
    /\ nPolls >= 2

\* C6: with poll >= 1 the poller issues at most floor(max_wait / poll) + 1
\* status polls; at most 3 for max_wait = 5 and poll = 2.
C6_PollBound ==
    /\ (poll >= 1 /\ max_wait >= 0) => nPolls <= (max_wait \div poll) + 1
    /\ (max_wait = 5 /\ poll = 2) => nPolls <= 3

C6_Witness ==
    /\ max_wait = 5
    /\ poll = 2
    /\ nPolls = 3
    /\ pc = "done"
    /\ exit_code = 4
    /\ normalized = "InProgress"

\* C7: once a status response is classified Succeeded or Failed the run has
\* ended with the matching exit code: no status request follows that
\* response and no poll-interval sleep was taken after it (every poll but
\* the last was followed by one sleep).
C7_TerminalStops ==
    normalized \in {"Succeeded", "Failed"} =>
       /\ pc = "done"
       /\ exit_code = IF normalized = "Succeeded" THEN 0 ELSE 5
       /\ method = "GET"
       /\ lastOutcome.kind = "return"
       /\ nPollSleeps = nPolls - 1

C7_Witness ==
    /\ normalized = "Succeeded"
    /\ pc = "done"
    /\ nPolls >= 3
    /\ nPollSleeps = nPolls - 1

\* The remote has so far reported no state of either terminal vocabulary.
RemoteNonTerminal == state \notin (SuccessStates \cup FailureStates)

\* The run was configured, got a job id, no request has failed, and the
\* remote has reported only non-terminal states.
BenignRun ==
    /\ base_url # ""
    /\ api_key # ""
    /\ exit_code \notin {1, 3}
    /\ RemoteNonTerminal

\* C8: an unrecognized, empty or missing remote state is classified
\* InProgress and is never fatal; a run in which the remote only ever
\* reports such states and no request fails eventually terminates, and it
\* terminates only with exit code 4 (TimedOut).
C8_NonTerminalTimesOut ==
    /\ []((RemoteNonTerminal /\ normalized # "none") => normalized = "InProgress")
    /\ []((pc = "done" /\ BenignRun) => exit_code = 4)
    /\ <>(~BenignRun \/ (pc = "done" /\ exit_code = 4))

C8_Witness ==
    /\ pc = "done"
    /\ exit_code = 4
    /\ state = <<"q","u","e","u","e","d">>
    /\ nPolls >= 2

C9_SuccessWords ==
    { <<"s","u","c","c","e","e","d","e","d">>, <<"s","u","c","c","e","s","s">>,
      <<"c","o","m","p","l","e","t","e","d">> }

C9_FailureWords ==
    { <<"f","a","i","l","e","d">>, <<"e","r","r","o","r">>,
      <<"c","a","n","c","e","l","l","e","d">>, <<"c","a","n","c","e","l","e","d">> }

SameLetter(x, y) ==
    \/ x = y
    \/ \E k \in DOMAIN UpperChars : {x, y} = {UpperChars[k], LowerChars[k]}

EqualIgnoringCase(a, b) ==
    /\ Len(a) = Len(b)
    /\ \A i \in DOMAIN a : SameLetter(a[i], b[i])

MatchesWord(raw, words) == \E w \in words : EqualIgnoringCase(raw, w)

\* C9: classification is a case-insensitive exact match: Succeeded iff the
\* raw state equals, letter case aside, one of succeeded, success, completed;
\* Failed iff it equals one of failed, error, cancelled, canceled; InProgress
\* for every other string, the empty string and a missing field included.
C9_Classification ==
    normalized # "none" =>
       LET raw == RawStateOf(s_resp) IN
       /\ normalized = "Succeeded" <=> MatchesWord(raw, C9_SuccessWords)
       /\ normalized = "Failed" <=> MatchesWord(raw, C9_FailureWords)
       /\ normalized = "InProgress" <=>
             ~MatchesWord(raw, C9_SuccessWords \cup C9_FailureWords)
       /\ raw = <<"S","U","C","C","E","E","D","E","D">> => normalized = "Succeeded"
       /\ raw = <<"C","a","n","c","e","l","l","e","d">> => normalized = "Failed"
       /\ raw = <<"q","u","e","u","e","d">> => normalized = "InProgress"
       /\ raw = <<>> => normalized = "InProgress"

C9_Witness ==
    /\ normalized = "Failed"
    /\ RawStateOf(s_resp) = <<"C","a","n","c","e","l","l","e","d">>

\* The submission POST has been answered and main has read the answer.
SubmitAnswered == (method = "POST" /\ ret.kind = "return") \/ method = "GET"

IdOnlyResponse == [jobId |-> Absent, id |-> IntVal(1), deploymentId |-> Absent]

\* No field of the response holds a usable job id: each of jobId, id and
\* deploymentId is absent, null, the empty string or 0.
NoUsableJobId(r) ==
    \A v \in {r.jobId, r.id, r.deploymentId} :
        v \in {Absent, Null, Str(<<>>), IntVal(0)}

\* C10 as stated: a submission response that lacks every recognized job id
\* field, the response {"id": 1} being one, ends the run with exit code 3 and
\* no status request.
C10_Original ==
    (SubmitAnswered /\ (NoUsableJobId(resp) \/ resp = IdOnlyResponse))
    => (pc = "done" /\ exit_code = 3 /\ nPolls = 0)

\* C10, amended: a submission response with no usable value under any of
\* jobId, id, deploymentId ends the run with exit code 3; the submission is
\* not retried and no status request is issued.  The response {"id": 1} is
\* not such a response: id is a recognized field, the job id is 1 and the
\* run goes on to poll.
C10_MissingJobId ==
    SubmitAnswered =>
       /\ NoUsableJobId(resp) =>
             /\ pc = "done"
             /\ exit_code = 3
             /\ method = "POST"
             /\ nPolls = 0
             /\ artifacts = <<>>
       /\ ~NoUsableJobId(resp) => (exit_code # 3 /\ Truthy(job_id))
       /\ resp = IdOnlyResponse => (job_id = IntVal(1) /\ exit_code # 3)

C10_Witness ==
    /\ pc = "done"
    /\ exit_code = 3
    /\ ret.kind = "return"
    /\ ret.body = SubmitDoc(Absent, Absent, Absent)
    /\ nPolls = 0

\* The run got a job id and went on to polling, and polling has ended in
\* Succeeded (0), Failed (5) or TimedOut (4).
PollingEnded == pc = "done" /\ exit_code \in {0, 4, 5}

\* C11: a terminal result is recorded exactly once per run, when polling
\* ends: a run whose polling ended in Succeeded, Failed or TimedOut has
\* written exactly one artifact, and no artifact exists before polling ends.
C11_TerminalResultOnce ==
    /\ PollingEnded => Len(artifacts) = 1
    /\ ~PollingEnded => artifacts = <<>>

\* C12: when polling ends in Succeeded or Failed the single artifact holds
\* the job id taken from the submission response, the payload as it was
\* read, the parsed submission response, and as final status the parsed
\* status response that was just classified terminal.  A submission answered
\* {"jobId": "abc"} whose first status response is {"status": "completed"}
\* ends with exit code 0 after that one status request, with an artifact for
\* job id abc.
C12_ArtifactContent ==
    /\ (pc = "done" /\ exit_code \in {0, 5}) =>
          /\ Len(artifacts) = 1
          /\ artifacts[1].jobId = job_id
          /\ artifacts[1].jobId \in {resp.jobId, resp.id, resp.deploymentId}
          /\ Truthy(artifacts[1].jobId)
          /\ artifacts[1].payload = payload
          /\ artifacts[1].submitResponse = resp
          /\ artifacts[1].finalStatus = s_resp
          /\ artifacts[1].finalStatus = ParseStatus(ret.body)
          /\ MatchesWord(RawStateOf(artifacts[1].finalStatus),
                         IF exit_code = 0 THEN C9_SuccessWords
                         ELSE C9_FailureWords)
    /\ (/\ resp.jobId = Str(<<"a","b","c">>)
        /\ nPolls = 1
        /\ normalized # "none"
        /\ s_resp.status = Str(<<"c","o","m","p","l","e","t","e","d">>)) =>
          /\ pc = "done"
          /\ exit_code = 0
          /\ Len(artifacts) = 1
          /\ artifacts[1].jobId = Str(<<"a","b","c">>)

C12_Witness ==
    /\ pc = "done"
    /\ exit_code = 0
    /\ nPolls = 1
    /\ nAttempts = 1
    /\ resp.jobId = Str(<<"a","b","c">>)
    /\ s_resp.status = Str(<<"c","o","m","p","l","e","t","e","d">>)
    /\ Len(artifacts) = 1
    /\ artifacts[1].jobId = Str(<<"a","b","c">>)

\* C13 as stated: with the payload and the build environment of this run,
\* a run to any other endpoint (another submission URL, by base URL or by
\* submit path) derives a different key, and a run to the same endpoint
\* derives the same key.
C13_Original ==
    idem_key # NoKey =>
       \A b \in KeyBaseUrls, p \in KeySubmitPaths :
          RunKey(payload, source_version, build_id, b, p) = idem_key
             <=> SubmitUrl(b, p) = submit_url

\* C13, amended: with the same payload and build environment the key
\* depends on the target only through the base URL as given.  A run with
\* another base URL string derives a different key, a run with the same
\* base URL string derives the same key whatever its submit path; so two
\* endpoints that differ only in the submit path share one key, and the same
\* endpoint written with and without a trailing slash on the base URL gets
\* two keys.
C13_KeyPerBaseUrl ==
    idem_key # NoKey =>
       /\ \A b \in KeyBaseUrls, p \in KeySubmitPaths :
             RunKey(payload, source_version, build_id, b, p) = idem_key
                <=> b = base_url
       /\ \E p \in KeySubmitPaths :
             /\ SubmitUrl(base_url, p) # submit_url
             /\ RunKey(payload, source_version, build_id, base_url, p) = idem_key

C13_Witness ==
    /\ idem_key # NoKey
    /\ sentKeys = {idem_key}
    /\ base_url = "https://deploy-api.internal/"
    /\ submit_url = "https://deploy-api.internal/v2/deployments"
    /\ SubmitUrl("https://deploy-api.internal", submit_path) = submit_url
    /\ RunKey(payload, source_version, build_id, "https://deploy-api.internal",
              submit_path) # idem_key
    /\ RunKey(payload, source_version, build_id, base_url, "/deployments")
          = idem_key

\* C14: the key is a function of (payload, salt) alone: the run's key is the
\* derivation applied to its payload and salt, and the same payload with any
\* other salt derives another key.  It is derived once per run, and every
\* attempt of the submission POST, retries included, carries that one key in
\* its Idempotency-Key header.
C14_OneKeyPerRun ==
    /\ [](idem_key # NoKey =>
            /\ idem_key =
                  MakeIdempotencyKey(payload,
                                     Salt(source_version, build_id, base_url))
            /\ \A sv \in SourceVersions, bid \in BuildIds, b \in KeyBaseUrls :
                  Salt(sv, bid, b) # Salt(source_version, build_id, base_url)
                     => MakeIdempotencyKey(payload, Salt(sv, bid, b)) # idem_key)
    /\ [](sentKeys \subseteq {idem_key} /\ NoKey \notin sentKeys)
    /\ []((method = "POST" /\ nAttempts >= 1) =>
            (sentKeys = {idem_key} /\ headers.IdempotencyKey = idem_key))
    /\ [][idem_key # NoKey => idem_key' = idem_key]_vars

C14_Witness ==
    /\ method = "POST"
    /\ nAttempts >= 2
    /\ Len(sleeps) >= 1
    /\ sentKeys = {idem_key}
    /\ idem_key # NoKey
    /\ ret.kind = "return"

\* The fatal conditions of a run.
SubmitRequestFailed == method = "POST" /\ ret.kind \in {"raise_http", "raise_net"}

PollRequestFailed == method = "GET" /\ ret.kind \in {"raise_http", "raise_net"}

MalformedSubmitResponse ==
    method = "POST" /\ ret.kind = "return" /\ ~Truthy(job_id)

\* The poll loop's elapsed check has run and found elapsed > max_wait.
BudgetExhausted == Truthy(job_id) /\ pc # "poll" /\ elapsed > max_wait

\* The exit codes main() returns for a failed run.
C15_ReturnedCodes == {2, 3, 4, 5}

\* C15 as stated: each fatal condition (a failed submission request, a
\* failed status request, a submission response without a job id, the wait
\* budget exhausted) ends the run by returning an exit code assigned to it,
\* with a diagnostic message printed by the program.
C15_Original ==
    (SubmitRequestFailed \/ PollRequestFailed \/ MalformedSubmitResponse
        \/ BudgetExhausted)
    => /\ pc = "done"
       /\ exit_code \in C15_ReturnedCodes
       /\ diagnostic \notin {"none", "Traceback"}

\* C15, amended: every fatal condition ends the run with a nonzero exit code
\* and a diagnostic, but not always a code main() returns.  A submission
\* response without a job id returns 3 and an exhausted wait budget returns
\* 4, each with its own message.  A failed request, in submission or in
\* polling, is a RuntimeError nothing catches: the run ends with the
\* interpreter's traceback and exit code 1, a code main() returns for no
\* condition.
C15_FatalEndings ==
    /\ MalformedSubmitResponse =>
          /\ pc = "done"
          /\ exit_code = 3
          /\ diagnostic = "Submit response missing job id"
    /\ BudgetExhausted =>
          /\ pc = "done"
          /\ exit_code = 4
          /\ diagnostic = "Timed out waiting for job"
    /\ (SubmitRequestFailed \/ PollRequestFailed) =>
          /\ pc = "done"
          /\ exit_code = 1
          /\ exit_code \notin C15_ReturnedCodes
          /\ diagnostic = "Traceback"
    /\ (pc = "done" /\ exit_code # 0) =>
          (exit_code \in C15_ReturnedCodes \cup {1} /\ diagnostic # "none")

C15_Witness ==
    /\ PollRequestFailed
    /\ pc = "done"
    /\ exit_code = 1
    /\ diagnostic = "Traceback"
    /\ nPolls >= 2
    /\ ret.kind = "raise_net"

\* C16: when a status request fails in _request (retries exhausted or a
\* non-retryable error) the poller does not poll again: the run has ended,
\* with no status request and no poll-interval sleep after the failed one
\* (every earlier poll was followed by one sleep), no artifact written, and
\* an exit code other than 0.
C16_PollFailureIsFatal ==
    PollRequestFailed =>
       /\ pc = "done"
       /\ exit_code # 0
       /\ exit_code = 1
       /\ artifacts = <<>>
       /\ nPollSleeps = nPolls - 1
       /\ nAttempts <= max_retries + 1
       /\ lastOutcome.kind \in {"http", "net"}

C16_Witness ==
    /\ PollRequestFailed
    /\ ret.kind = "raise_http"
    /\ ret.status = 503
    /\ nAttempts = 2
    /\ nPolls = 3
    /\ nPollSleeps = 2
    /\ artifacts = <<>>
    /\ exit_code = 1

\* The submission POST was last answered with a client error that is not
\* retryable (4xx other than 429).
ClientErrorOnSubmit ==
    /\ method = "POST"
    /\ lastOutcome.kind = "http"
    /\ lastOutcome.status \in (400 .. 499) \ {429}

SameMapping(p, q) ==
    /\ Len(p) = Len(q)
    /\ {p[i] : i \in DOMAIN p} = {q[i] : i \in DOMAIN q}

\* C18: the key derivation canonicalizes the payload with a stable key
\* ordering: any payload that is the same mapping as this run's payload,
\* whatever the order its keys were written in, derives this run's key under
\* this run's salt.
C18_KeyOrderIndependent ==
    idem_key # NoKey =>
       \A p \in KeyPayloads :
          SameMapping(p, payload) =>
             RunKey(p, source_version, build_id, base_url, submit_path) = idem_key

\* C19: _request never sleeps after its final attempt.  Every failed attempt
\* that is retried is followed by one backoff sleep and one increment of the
\* one attempt counter, whichever kind of failure it was; so on every way
\* out of a call that made an attempt (a returned response, a non-retryable
\* HTTP error, retries exhausted by HTTP errors, network errors or a mix of
\* them) the number of backoff sleeps is the number of attempts minus one.
C19_NoSleepAfterLastAttempt ==
    /\ Len(sleeps) = attempt
    /\ pc = "request" => nAttempts = attempt
    /\ (CallEnded /\ lastOutcome.kind # "none") =>
          /\ Len(sleeps) = nAttempts - 1
          /\ attempt = nAttempts - 1
          /\ attempt <= max_retries

C19_Witness ==
    /\ CallEnded
    /\ max_retries = 3
    /\ ret.kind = "raise_http"
    /\ ~only503
    /\ last_err = "TimeoutError"
    /\ nAttempts = 4
    /\ Len(sleeps) = 3

\* C20: after a successful submission with max_wait >= 0 the run never ends
\* TimedOut before at least one status request was issued.  The budget
\* comparison is strict: a check that finds elapsed = max_wait exactly still
\* issues the poll, and TimedOut is reported only at elapsed >= max_wait + 1;
\* with max_wait = 0 the first poll always happens.
C20_PollBeforeTimeout ==
    /\ []((max_wait >= 0 /\ pc = "done" /\ exit_code = 4) => nPolls >= 1)
    /\ []((pc = "done" /\ exit_code = 4) => elapsed >= max_wait + 1)
    /\ []((max_wait = 0 /\ Truthy(job_id) /\ pc # "poll") => nPolls >= 1)
    /\ [][(pc = "poll" /\ clock \div TicksPerSec = max_wait) =>
             /\ pc' = "request"
             /\ method' = "GET"
             /\ nPolls' = nPolls + 1
             /\ exit_code' = exit_code]_vars

C20_Witness ==
    /\ pc = "request"
    /\ method = "GET"
    /\ nAttempts = 0
    /\ nPolls = 2
    /\ max_wait = 2
    /\ elapsed = max_wait
    /\ clock \div TicksPerSec = max_wait

====
